---- MODULE Spec2Model ----
(***************************************************************************)
(* Model of the YAML scenario generator of playwright-core                 *)
(* (packages/playwright-core/src/server/codegen/yaml.ts): the text-matcher *)
(* parser, the selector mapper, the action mapper and the stateful         *)
(* YamlLanguageGenerator (generateHeader / generateAction /                *)
(* generateFooter).                                                        *)
(*                                                                         *)
(* JavaScript values are tagged by the name of their only field, so that   *)
(* values of different types are never compared field by field:            *)
(*   Undef      undefined / null                                           *)
(*   S(t)       a string, t the sequence of its tokens                     *)
(*   N(i)       a number          B(b)  a boolean                          *)
(*   O(r)       a plain object, r a record of JavaScript values            *)
(*   A(q)       an array, q a sequence of JavaScript values                *)
(*   X(v)       a value handed through unchanged (parsed AST, RegExp, ...) *)
(* A string is a sequence of tokens (words and punctuation); prefix tests  *)
(* and regular expressions are computed on the tokens.                     *)
(***************************************************************************)
EXTENDS Integers, Sequences, FiniteSets, TLC

-----------------------------------------------------------------------------
(* JavaScript values *)

Undef == [u |-> TRUE]

S(t) == [s |-> t]

N(i) == [n |-> i]

B(v) == [b |-> v]

O(r) == [o |-> r]

A(q) == [a |-> q]

X(v) == [x |-> v]

IsU(v) == "u" \in DOMAIN v

IsS(v) == "s" \in DOMAIN v

IsN(v) == "n" \in DOMAIN v

IsB(v) == "b" \in DOMAIN v

IsO(v) == "o" \in DOMAIN v

IsA(v) == "a" \in DOMAIN v

\* obj.k of a record of JavaScript values: undefined when the key is absent
Get(r, k) == IF k \in DOMAIN r THEN r[k] ELSE Undef

\* the object r with key k set to v (r.k = v)
Put(r, k, v) == [f \in (DOMAIN r) \cup {k} |-> IF f = k THEN v ELSE r[f]]

\* the empty object {}
EmptyRec == [f \in {} |-> Undef]

\* JavaScript truthiness
Truthy(v) ==
  IF IsU(v) THEN FALSE
  ELSE IF IsS(v) THEN Len(v.s) > 0
  ELSE IF IsN(v) THEN v.n # 0
  ELSE IF IsB(v) THEN v.b
  ELSE TRUE

\* a || b
OrElse(a, b) == IF Truthy(a) THEN a ELSE b

\* a ?? b
Coalesce(a, b) == IF IsU(a) THEN b ELSE a

\* String.prototype.startsWith
StartsWith(t, p) == Len(p) <= Len(t) /\ SubSeq(t, 1, Len(p)) = p

\* String.prototype.endsWith
EndsWith(t, p) == Len(p) <= Len(t) /\ SubSeq(t, Len(t) - Len(p) + 1, Len(t)) = p

-----------------------------------------------------------------------------
(* Tokens *)

\* the double quote character
Q == "\""

\* the characters that may follow the closing slash of a regex literal
RegexFlagTokens == {"d", "g", "i", "m", "s", "u", "y", "v"}

\* the characters escapeRegex puts a backslash in front of
RegexSpecialTokens == {".", "*", "+", "?", "^", "$", "{", "}", "(", ")", "|", "[", "]", "\\"}

\* lower case of a token (only the tokens of the model that have upper case)
LowerTok(t) ==
  CASE t = "PWD" -> "pwd"
    [] t = "Password" -> "password"
    [] t = "SECRET" -> "secret"
    [] t = "Email" -> "email"
    [] t = "Submit" -> "submit"
    [] t = "Go" -> "go"
    [] OTHER -> t

\* /password|pwd|secret/i.test(t) on the tokens of a string
SecretRxTest(t) == \E i \in 1..Len(t) : LowerTok(t[i]) \in {"password", "pwd", "secret"}

-----------------------------------------------------------------------------
(* parseTextSpec *)

\* index of the last "/" token of t, 0 when there is none
LastSlash(t) ==
  LET idx == {i \in 1..Len(t) : t[i] = "/"}
  IN IF idx = {} THEN 0 ELSE CHOOSE i \in idx : \A j \in idx : j <= i

\* number of the tokens of t that equal c
CountTok(t, c) == Cardinality({i \in 1..Len(t) : t[i] = c})

\* new RegExp(body, flags) does not throw: no flag twice, not both u and v,
\* balanced parentheses, no quantifier with nothing to repeat
RegExpCompiles(body, flags) ==
  /\ \A i, j \in 1..Len(flags) : flags[i] = flags[j] => i = j
  /\ ~(\E i, j \in 1..Len(flags) : flags[i] = "u" /\ flags[j] = "v")
  /\ CountTok(body, "(") = CountTok(body, ")")
  /\ (Len(body) > 0 => body[1] \notin {"*", "+", "?"})

\* RegExp.prototype.source: "(?:)" for the empty pattern, "/" escaped
RECURSIVE RegExpSource(_)
RegExpSource(body) ==
  IF body = <<>> THEN <<>>
  ELSE (IF Head(body) = "/" THEN <<"\\", "/">> ELSE <<Head(body)>>) \o RegExpSource(Tail(body))

\* RegExp.prototype.flags: the flags in the fixed order d g i m s u v y
RegExpFlags(flags) ==
  LET order == <<"d", "g", "i", "m", "s", "u", "v", "y">>
      has(c) == \E i \in 1..Len(flags) : flags[i] = c
  IN SelectSeq(order, has)

\* s.replace(/[.*+?^${}()|[\]\\]/g, "\\$&")
RECURSIVE escapeRegex(_)
escapeRegex(t) ==
  IF t = <<>> THEN <<>>
  ELSE (IF Head(t) \in RegexSpecialTokens THEN <<"\\", Head(t)>> ELSE <<Head(t)>>)
         \o escapeRegex(Tail(t))

\* the characters between the quotes of a JSON string, decoded:
\* [ok |-> FALSE] for a bare quote or a bad escape
RECURSIVE JsonUnescape(_)
JsonUnescape(c) ==
  IF c = <<>> THEN [ok |-> TRUE, v |-> <<>>]
  ELSE IF Head(c) = Q THEN [ok |-> FALSE, v |-> <<>>]
  ELSE IF Head(c) = "\\" THEN
    IF Len(c) >= 2 /\ c[2] \in {Q, "\\", "/"} THEN
      LET r == JsonUnescape(SubSeq(c, 3, Len(c)))
      IN [ok |-> r.ok, v |-> <<c[2]>> \o r.v]
    ELSE [ok |-> FALSE, v |-> <<>>]
  ELSE LET r == JsonUnescape(Tail(c))
       IN [ok |-> r.ok, v |-> <<Head(c)>> \o r.v]

\* parseJsonString: the decoded string, or undefined when JSON.parse throws
parseJsonString(q) ==
  IF Len(q) >= 2 /\ q[1] = Q /\ q[Len(q)] = Q THEN
    LET r == JsonUnescape(SubSeq(q, 2, Len(q) - 1))
    IN IF r.ok THEN S(r.v) ELSE Undef
  ELSE Undef

\* rule 1, the regex literal /pattern/flags: the matcher, or undefined
TextSpecRegex(t) ==
  LET j == LastSlash(t)
      body == SubSeq(t, 2, j - 1)
      flags == SubSeq(t, j + 1, Len(t))
  IN IF /\ Len(t) >= 2
        /\ t[1] = "/"
        /\ j >= 2
        /\ \A k \in (j + 1)..Len(t) : t[k] \in RegexFlagTokens
        /\ RegExpCompiles(body, flags)
     THEN O([pattern |-> S(IF body = <<>> THEN <<"(?:)">> ELSE RegExpSource(body)),
             flags |-> S(RegExpFlags(flags))])
     ELSE Undef

\* rule 2, the suffix forms "..."s and "..."i: the matcher, or undefined
TextSpecSuffix(t) ==
  IF EndsWith(t, <<Q, "s">>) \/ EndsWith(t, <<Q, "i">>) THEN
    LET suffix == t[Len(t)]
        quoted == SubSeq(t, 1, Len(t) - 1)
    IN IF StartsWith(quoted, <<Q>>) /\ EndsWith(quoted, <<Q>>) THEN
         LET decoded == parseJsonString(quoted)
         IN IF ~IsU(decoded) THEN
              IF suffix = "s"
              THEN O([value |-> decoded, exact |-> B(TRUE)])
              ELSE O([pattern |-> S(escapeRegex(decoded.s)), flags |-> S(<<"i">>)])
            ELSE Undef
       ELSE Undef
  ELSE Undef

\* rule 3, the plain quoted JSON string: the decoded string, or undefined
TextSpecQuoted(t) ==
  IF StartsWith(t, <<Q>>) /\ EndsWith(t, <<Q>>) THEN parseJsonString(t) ELSE Undef

parseTextSpec(input) ==
  IF ~Truthy(input) THEN Undef
  ELSE IF ~IsU(TextSpecRegex(input.s)) THEN TextSpecRegex(input.s)
  ELSE IF ~IsU(TextSpecSuffix(input.s)) THEN TextSpecSuffix(input.s)
  ELSE IF ~IsU(TextSpecQuoted(input.s)) THEN TextSpecQuoted(input.s)
  ELSE input

-----------------------------------------------------------------------------
(* Frame path *)

\* /^frame\[name="(.+)"\]$/ : the frame selector tokens are
\* "frame[name=", Q, name..., Q, "]"
frameRefFromString(sel) ==
  IF /\ Len(sel) >= 5
     /\ sel[1] = "frame[name=" /\ sel[2] = Q
     /\ sel[Len(sel) - 1] = Q /\ sel[Len(sel)] = "]"
  THEN O([name |-> S(SubSeq(sel, 3, Len(sel) - 2))])
  ELSE O([selector |-> S(sel)])

\* path is undefined or an array of strings
framePathToObjects(path) ==
  IF IsU(path) \/ Len(path.a) = 0 THEN Undef
  ELSE A([i \in 1..Len(path.a) |-> frameRefFromString(path.a[i].s)])

-----------------------------------------------------------------------------
(* stripDefaults, stripEmpty *)

\* a RegExp object: typeof "object", no own enumerable property
RE(source, flags) == [re |-> [source |-> source, flags |-> flags]]

IsRE(v) == "re" \in DOMAIN v

\* String(v) of a RegExp: /source/flags
RegExpToString(v) == <<"/">> \o v.re.source \o <<"/">> \o v.re.flags

\* the keys of obj that stripDefaults keeps, before looking into nested objects
StripDefaultsKeeps(r, k) ==
  /\ ~IsU(r[k])
  /\ ~(k = "modifiers" /\ r[k] = N(0))
  /\ ~(k = "framePath" /\ IsA(r[k]) /\ Len(r[k].a) = 0)

\* stripDefaults keeping a nested object when the object it was given has keys
RECURSIVE stripDefaultsKeysOfInput(_)
stripDefaultsKeysOfInput(r) ==
  LET kept == {k \in DOMAIN r :
                 /\ StripDefaultsKeeps(r, k)
                 /\ ~IsRE(r[k])
                 /\ (IsO(r[k]) => DOMAIN r[k].o # {})}
  IN [k \in kept |-> IF IsO(r[k]) THEN O(stripDefaultsKeysOfInput(r[k].o)) ELSE r[k]]

\* stripDefaults(obj) on the record of a plain object; values held in arrays
\* are copied as they are, a nested object that strips to {} is dropped
RECURSIVE stripDefaults(_)
stripDefaults(r) ==
  LET kept == {k \in DOMAIN r :
                 /\ StripDefaultsKeeps(r, k)
                 /\ ~IsRE(r[k])
                 /\ (IsO(r[k]) => DOMAIN stripDefaults(r[k].o) # {})}
  IN [k \in kept |-> IF IsO(r[k]) THEN O(stripDefaults(r[k].o)) ELSE r[k]]

\* stripEmpty(obj): as stripDefaults, and it looks into arrays and drops empty ones
RECURSIVE stripEmpty(_)
stripEmpty(r) ==
  LET kept == {k \in DOMAIN r :
                 /\ ~IsU(r[k])
                 /\ (IsA(r[k]) => Len(r[k].a) > 0)
                 /\ ~IsRE(r[k])
                 /\ (IsO(r[k]) => DOMAIN stripEmpty(r[k].o) # {})}
  IN [k \in kept |->
        IF IsA(r[k])
        THEN A([i \in 1..Len(r[k].a) |->
                 IF IsO(r[k].a[i]) THEN O(stripEmpty(r[k].a[i].o)) ELSE r[k].a[i]])
        ELSE IF IsO(r[k]) THEN O(stripEmpty(r[k].o))
        ELSE r[k]]

-----------------------------------------------------------------------------
(* Secret masking *)

\* the masked placeholder token
MaskToken == S(<<"${env:ANET_PASSWORD}">>)

\* matchText(t): t is a string, or an object read through .value and .regex
matchText(t) ==
  IF IsS(t) THEN SecretRxTest(t.s)
  ELSE IF ~IsO(t) THEN FALSE
  ELSE IF Truthy(Get(t.o, "value")) /\ IsS(Get(t.o, "value")) /\ SecretRxTest(Get(t.o, "value").s)
    THEN TRUE
  ELSE IF Truthy(Get(t.o, "regex")) /\ IsS(Get(t.o, "regex")) /\ SecretRxTest(Get(t.o, "regex").s)
    THEN TRUE
  ELSE FALSE

\* regex.test(v): v is converted to a string first
SecretRxTestValue(v) ==
  IF IsS(v) THEN SecretRxTest(v.s)
  ELSE IF IsRE(v) THEN SecretRxTest(RegExpToString(v))
  ELSE FALSE

\* maybeMaskValue(el, text): el is the element object
maybeMaskValue(el, text) ==
  IF IsU(text) THEN text
  ELSE IF "testId" \in DOMAIN el.o /\ SecretRxTestValue(el.o.testId) THEN MaskToken
  ELSE IF "label" \in DOMAIN el.o /\ matchText(el.o.label) THEN MaskToken
  ELSE IF "placeholder" \in DOMAIN el.o /\ matchText(el.o.placeholder) THEN MaskToken
  ELSE IF "role" \in DOMAIN el.o /\ SecretRxTestValue(Coalesce(Get(el.o, "name"), S(<<>>))) THEN MaskToken
  ELSE IF "text" \in DOMAIN el.o /\ matchText(el.o.text) THEN MaskToken
  ELSE IF "css" \in DOMAIN el.o /\ SecretRxTestValue(el.o.css) THEN MaskToken
  ELSE IF "xpath" \in DOMAIN el.o /\ SecretRxTestValue(el.o.xpath) THEN MaskToken
  ELSE text

\* maybeMaskValue threw: "in" on an undefined element, or matchText reading
\* .value of an undefined matcher
maybeMaskValueThrows(el, text) ==
  IF IsU(text) THEN FALSE
  ELSE IF IsU(el) THEN TRUE
  ELSE IF "testId" \in DOMAIN el.o /\ SecretRxTestValue(el.o.testId) THEN FALSE
  ELSE IF "label" \in DOMAIN el.o /\ IsU(el.o.label) THEN TRUE
  ELSE IF "label" \in DOMAIN el.o /\ matchText(el.o.label) THEN FALSE
  ELSE IF "placeholder" \in DOMAIN el.o /\ IsU(el.o.placeholder) THEN TRUE
  ELSE IF "placeholder" \in DOMAIN el.o /\ matchText(el.o.placeholder) THEN FALSE
  ELSE IF "role" \in DOMAIN el.o /\ SecretRxTestValue(Coalesce(Get(el.o, "name"), S(<<>>))) THEN FALSE
  ELSE "text" \in DOMAIN el.o /\ IsU(el.o.text)

-----------------------------------------------------------------------------
(* Trivial URLs *)

TRIVIAL_URL_PREFIXES ==
  << <<"about:blank">>, <<"chrome-error://">>, <<"devtools://">>, <<"edge://">>,
     <<"data:">>, <<"blob:">>, <<"chrome-extension://">> >>

\* isTrivialUrl with the last three prefixes of the list left out
isTrivialUrlShortList(url) ==
  IF ~Truthy(url) THEN TRUE
  ELSE \E i \in 1..4 : StartsWith(url.s, TRIVIAL_URL_PREFIXES[i])

isTrivialUrl(url) ==
  IF ~Truthy(url) THEN TRUE
  ELSE \E i \in 1..Len(TRIVIAL_URL_PREFIXES) : StartsWith(url.s, TRIVIAL_URL_PREFIXES[i])

-----------------------------------------------------------------------------
(* Selector mapper *)

(* A raw selector string is [s |-> tokens, ast |-> what the selector grammar
   makes of the string]: ast.ok is FALSE when parseSelector throws, otherwise
   ast.parts is the chain and ast.capture the capture index (undefined or a
   number). A part is [name, body, source]; the body of a testid, role or attr
   part is [s |-> tokens, attrs |-> what the attribute-body parser returns]. *)

\* the string alone, as it is written to the output
Str(v) == S(v.s)

parseSelector(raw) == raw.ast

parseAttributeSelector(body) == body.attrs

\* the canonical text of a part: engine=source, the engine left out for css
PartText(part) ==
  IF part.name = "css" THEN part.source.s ELSE <<part.name, "=">> \o part.source.s

\* the canonical text of a chain: the texts of its parts joined by " >> "
RECURSIVE JoinSources(_)
JoinSources(parts) ==
  IF parts = <<>> THEN <<>>
  ELSE IF Len(parts) = 1 THEN PartText(parts[1])
  ELSE PartText(parts[1]) \o <<" >> ">> \o JoinSources(Tail(parts))

stringifySelector(parsed) == S(JoinSources(parsed.parts))

FILTER_ENGINES == {"internal:has-text", "internal:has", "nth"}

\* the 0-based index of the base part
BaseIndex(parsed) ==
  LET len == Len(parsed.parts)
      cand == {i \in 0..(len - 1) : parsed.parts[i + 1].name \notin FILTER_ENGINES}
  IN IF IsN(parsed.capture) /\ parsed.capture.n >= 0 THEN parsed.capture.n
     ELSE IF cand = {} THEN len - 1
     ELSE CHOOSE i \in cand : \A j \in cand : j <= i

\* parseInt(String(body ?? ''), 10): [finite |-> FALSE] stands for NaN
ParseInt(body) ==
  LET t == IF IsS(body) THEN body.s ELSE <<>>
  IN IF Len(t) = 0 THEN [finite |-> FALSE, n |-> 0]
     ELSE CASE t[1] = "0" -> [finite |-> TRUE, n |-> 0]
            [] t[1] = "1" -> [finite |-> TRUE, n |-> 1]
            [] t[1] = "2" -> [finite |-> TRUE, n |-> 2]
            [] t[1] = "-1" -> [finite |-> TRUE, n |-> -1]
            [] OTHER -> [finite |-> FALSE, n |-> 0]

\* the switch on basePart.name threw: attributes[0] of a testid part is undefined
ElementThrows(basePart) ==
  basePart.name = "internal:testid" /\ Len(parseAttributeSelector(basePart.body).attributes) = 0

\* the role case compiling a case-insensitive name to a regular expression
RECURSIVE RoleNameInsensitive(_, _)
RoleNameInsensitive(attributes, acc) ==
  IF attributes = <<>> THEN acc
  ELSE RoleNameInsensitive(Tail(attributes),
         IF Head(attributes).name # "name" THEN acc
         ELSE IF IsS(Head(attributes).value) /\ ~Head(attributes).caseSensitive
           THEN [name |-> RE(escapeRegex(Head(attributes).value.s), <<"i">>)]
         ELSE [name |-> Head(attributes).value])

\* element.name after the loop over the attributes of a role part
RECURSIVE RoleName(_, _)
RoleName(attributes, acc) ==
  IF attributes = <<>> THEN acc
  ELSE RoleName(Tail(attributes),
                IF Head(attributes).name = "name" THEN [name |-> Head(attributes).value] ELSE acc)

\* the switch writing the whole chain, not the base part, to a css element
ElementOfWholeChain(parsed, basePart) ==
  CASE basePart.name = "internal:testid" ->
         [testId |-> parseAttributeSelector(basePart.body).attributes[1].value]
    [] basePart.name = "internal:role" ->
         LET sel == parseAttributeSelector(basePart.body)
             nm == RoleName(sel.attributes, EmptyRec)
         IN IF "name" \in DOMAIN nm THEN [role |-> sel.name, name |-> nm.name]
            ELSE [role |-> sel.name]
    [] basePart.name = "internal:text" -> [text |-> parseTextSpec(basePart.body)]
    [] basePart.name = "xpath" -> [xpath |-> basePart.source]
    [] basePart.name = "internal:label" -> [label |-> parseTextSpec(basePart.body)]
    [] basePart.name = "internal:placeholder" -> [placeholder |-> parseTextSpec(basePart.body)]
    [] OTHER -> [css |-> stringifySelector(parsed)]

\* the element built by the switch on basePart.name
ElementOf(parsed, basePart) ==
  CASE basePart.name = "internal:testid" ->
         [testId |-> parseAttributeSelector(basePart.body).attributes[1].value]
    [] basePart.name = "internal:role" ->
         LET sel == parseAttributeSelector(basePart.body)
             nm == RoleName(sel.attributes, EmptyRec)
         IN IF "name" \in DOMAIN nm THEN [role |-> sel.name, name |-> nm.name]
            ELSE [role |-> sel.name]
    [] basePart.name = "internal:text" -> [text |-> parseTextSpec(basePart.body)]
    [] basePart.name \in {"css", "css:light"} -> [css |-> basePart.source]
    [] basePart.name = "xpath" -> [xpath |-> basePart.source]
    [] basePart.name = "internal:label" -> [label |-> parseTextSpec(basePart.body)]
    [] basePart.name = "internal:placeholder" -> [placeholder |-> parseTextSpec(basePart.body)]
    [] OTHER -> [css |-> stringifySelector(parsed)]

ElementEngines ==
  {"internal:testid", "internal:role", "internal:text", "css", "css:light", "xpath",
   "internal:label", "internal:placeholder"}

\* filters after the loop over the parts that follow the base part
RECURSIVE FiltersOf(_, _)
FiltersOf(rest, acc) ==
  IF rest = <<>> THEN acc
  ELSE FiltersOf(Tail(rest),
                 IF Head(rest).name = "internal:has-text"
                 THEN O([hasText |-> parseTextSpec(Head(rest).body)])
                 ELSE acc)

\* nth after the loop over the parts that follow the base part
RECURSIVE NthOf(_, _)
NthOf(rest, acc) ==
  IF rest = <<>> THEN acc
  ELSE NthOf(Tail(rest),
             IF Head(rest).name = "nth" /\ ParseInt(Head(rest).body).finite
             THEN N(ParseInt(Head(rest).body).n)
             ELSE acc)

\* the warnings pushed to the debug sink, in order
RECURSIVE FilterWarnings(_)
FilterWarnings(rest) ==
  IF rest = <<>> THEN <<>>
  ELSE (IF Head(rest).name \in {"internal:has-text", "nth"} THEN <<>>
        ELSE << S(<<"unhandled parsed attribute part ", Head(rest).name>>) >>)
       \o FilterWarnings(Tail(rest))

\* the result when elementFromParsedSelector returns undefined
NoResult ==
  [raised |-> FALSE, none |-> TRUE, element |-> EmptyRec,
   filters |-> Undef, nth |-> Undef, sink |-> Undef]

\* debug.parsed_selector with the warnings pushed to it
SinkOf(sink0, warnings) ==
  IF warnings = <<>> THEN O(sink0) ELSE O(Put(sink0, "warnings", A(warnings)))

\* the part of elementFromParsedSelector after basePart is known to exist:
\* the switch on basePart.name and the loop over the parts after it
MapBasePart(parsed, basePart, rest, sink0, debugOn) ==
  IF ElementThrows(basePart) THEN
    [raised |-> TRUE, none |-> FALSE, element |-> EmptyRec,
     filters |-> Undef, nth |-> Undef,
     sink |-> IF debugOn THEN O(sink0) ELSE Undef]
  ELSE
    [raised |-> FALSE, none |-> FALSE,
     element |-> ElementOf(parsed, basePart),
     filters |-> FiltersOf(rest, Undef),
     nth |-> NthOf(rest, Undef),
     sink |-> IF ~debugOn THEN Undef
              ELSE SinkOf(sink0,
                          (IF basePart.name \in ElementEngines THEN <<>>
                           ELSE << S(<<"unhandled engine ", basePart.name>>) >>)
                          \o FilterWarnings(rest))]

\* the part of elementFromParsedSelector after baseIndex is chosen
MapAtBaseIndex(raw, parsed, baseIndex, debugOn) ==
  IF baseIndex >= 0 /\ baseIndex < Len(parsed.parts) THEN
    MapBasePart(parsed, parsed.parts[baseIndex + 1],
                SubSeq(parsed.parts, baseIndex + 2, Len(parsed.parts)),
                [parsed |-> X(parsed), baseIndex |-> N(baseIndex),
                 basePart |-> X(parsed.parts[baseIndex + 1])],
                debugOn)
  ELSE
    [raised |-> FALSE, none |-> FALSE, element |-> [css |-> Str(raw)],
     filters |-> Undef, nth |-> Undef,
     sink |-> IF debugOn
              THEN O([parsed |-> X(parsed), baseIndex |-> N(baseIndex), basePart |-> Undef])
              ELSE Undef]

\* the part of elementFromParsedSelector after parseSelector returned
MapParsed(raw, parsed, debugOn) == MapAtBaseIndex(raw, parsed, BaseIndex(parsed), debugOn)

(* elementFromParsedSelector(raw, debug):
   raised - the call threw; none - it returned undefined;
   element, filters, nth - the fields of the result;
   sink - debug.parsed_selector as the call left it (undefined when not set) *)
elementFromParsedSelector(raw, debugOn) ==
  IF ~Truthy(raw) THEN NoResult
  ELSE IF ~parseSelector(raw).ok THEN NoResult
  ELSE MapParsed(raw, parseSelector(raw), debugOn)

isActionWithSelector(action) == Truthy(Get(action, "selector"))

\* selector.page and selector.framePath
FrameSelector(frame, framePath) ==
  IF Truthy(framePath)
  THEN (IF Truthy(Get(frame, "pageAlias"))
        THEN [page |-> frame.pageAlias, framePath |-> framePath]
        ELSE [framePath |-> framePath])
  ELSE (IF Truthy(Get(frame, "pageAlias")) THEN [page |-> frame.pageAlias] ELSE EmptyRec)

\* selector.element, selector.filters and selector.nth from the mapper's result
MappedSelector(sel, raw, mapped) ==
  [k \in DOMAIN sel \cup {"element"}
        \cup (IF ~mapped.none /\ Truthy(mapped.filters) THEN {"filters"} ELSE {})
        \cup (IF ~mapped.none /\ IsN(mapped.nth) THEN {"nth"} ELSE {}) |->
     CASE k = "element" -> IF mapped.none THEN O([css |-> Str(Coalesce(raw, S(<<"UNKNOWN">>)))])
                           ELSE O(mapped.element)
       [] k = "filters" -> mapped.filters
       [] k = "nth" -> mapped.nth
       [] OTHER -> sel[k]]

\* the part of buildStructuredSelector after the mapper returned or threw
SelectorResult(sel, raw, mapped) ==
  [raised |-> mapped.raised,
   selector |-> IF mapped.raised THEN EmptyRec ELSE MappedSelector(sel, raw, mapped),
   sink |-> mapped.sink]

(* buildStructuredSelector(actionInContext, debug):
   [raised, selector (the record of the selector object), sink] *)
buildStructuredSelector(aic, debugOn) ==
  IF ~isActionWithSelector(aic.action.o)
  THEN [raised |-> FALSE,
        selector |-> FrameSelector(aic.frame.o, framePathToObjects(Get(aic.frame.o, "framePath"))),
        sink |-> Undef]
  ELSE SelectorResult(FrameSelector(aic.frame.o, framePathToObjects(Get(aic.frame.o, "framePath"))),
                      aic.action.o.selector,
                      elementFromParsedSelector(aic.action.o.selector, debugOn))

-----------------------------------------------------------------------------
(* URLs: the tokens of a URL are scheme, host, optional port, then path,
   query and fragment *)

HierarchicalSchemes == {"https://", "http://"}

OpaqueSchemes == {"about:blank", "data:", "blob:", "mailto:"}

\* new URL(t) does not throw
UrlParses(t) ==
  \/ Len(t) >= 2 /\ t[1] \in HierarchicalSchemes /\ t[2] \in {"example.com", "other.com", "localhost"}
  \/ Len(t) >= 1 /\ t[1] \in OpaqueSchemes

\* new URL(t).protocol is "http:" or "https:"
UrlIsHttp(t) == t[1] \in HierarchicalSchemes

\* new URL(t).hostname
UrlHostname(t) == IF t[1] \in HierarchicalSchemes THEN <<t[2]>> ELSE <<>>

-----------------------------------------------------------------------------
(* expectFromSignals *)

toUrlHint(url) ==
  IF ~Truthy(url) THEN Undef
  ELSE IF UrlParses(url.s) /\ UrlIsHttp(url.s) THEN O([url_exact |-> url])
  ELSE O([url_contains |-> url])

\* the expectation pushed for one signal, <<>> for an unknown signal
ExpectationOf(signal) ==
  CASE signal.name = S(<<"navigation">>) ->
         LET hint == toUrlHint(Get(signal, "url"))
         IN IF Truthy(hint) THEN << O(Put(hint.o, "expect", S(<<"navigation">>))) >>
            ELSE << O([expect |-> S(<<"navigation">>)]) >>
    [] signal.name = S(<<"popup">>) ->
         << O([expect |-> S(<<"popup">>), pageAlias |-> Get(signal, "popupAlias")]) >>
    [] signal.name = S(<<"download">>) -> << O([expect |-> S(<<"download">>)]) >>
    [] signal.name = S(<<"dialog">>) -> << O([expect |-> S(<<"dialog">>)]) >>
    [] OTHER -> <<>>

RECURSIVE ExpectationsOf(_)
ExpectationsOf(signals) ==
  IF signals = <<>> THEN <<>>
  ELSE ExpectationOf(Head(signals).o) \o ExpectationsOf(Tail(signals))

\* expectFromSignals returning the list it built, empty or not
expectFromSignalsAnyLength(action) ==
  LET signals == Get(action, "signals")
  IN IF ~IsA(signals) \/ Len(signals.a) = 0 THEN Undef
     ELSE A(ExpectationsOf(signals.a))

expectFromSignals(action) ==
  LET signals == Get(action, "signals")
  IN IF ~IsA(signals) \/ Len(signals.a) = 0 THEN Undef
     ELSE IF ExpectationsOf(signals.a) = <<>> THEN Undef
     ELSE A(ExpectationsOf(signals.a))

-----------------------------------------------------------------------------
(* YamlLanguageGenerator *)

\* one element of a returned text: a comment line, the header block
\* (the dumped meta and "steps:") or one step list item
CommentItem(t) == [kind |-> "comment", body |-> S(t)]

HeaderItem(meta) == [kind |-> "header", body |-> O(stripEmpty(meta))]

\* formatAsYamlListItem(stripDefaults(step), dumpOpts)
formatAsYamlListItem(entry) == [kind |-> "step", body |-> O(entry)]

\* _emitHeaderOnce(): the lines it returns
emitHeaderOnce(headerEmitted, meta) == IF headerEmitted THEN <<>> ELSE << HeaderItem(meta) >>

\* the fields of the generator before any call
InitMeta == [version |-> S(<<"0.2">>), name |-> S(<<"Recorded Scenario">>), baseURL |-> Undef]

\* generateHeader threw: new URL(seedUrl) on a seed that is no URL
generateHeaderThrows(baseURL) == Truthy(baseURL) /\ ~UrlParses(baseURL.s)

\* _meta as generateHeader sets it
HeaderMeta(baseURL) ==
  LET seedUrl == OrElse(baseURL, Undef)
  IN [version |-> S(<<"0.1">>),
      name |-> IF Truthy(seedUrl) THEN S(UrlHostname(seedUrl.s)) ELSE S(<<"Recorded Scenario">>),
      baseURL |-> OrElse(baseURL, seedUrl)]

\* the navigate case taking baseURL from every navigation
NavigateMetaEveryTime(meta, url) == [meta EXCEPT !.baseURL = url]

\* _meta after the navigate case: if (!this._meta.baseURL) this._meta.baseURL = url
NavigateMeta(meta, url) == IF ~Truthy(meta.baseURL) THEN [meta EXCEPT !.baseURL = url] ELSE meta

\* the navigate case keeping only a URL that parses
NavigateUrlParsed(meta, url) == IF UrlParses(url.s) THEN url ELSE Undef

\* step.url of the navigate case
NavigateUrl(meta, url) == url

\* the step of the click case
ClickStep(action) ==
  LET s1 == [action |-> IF Get(action, "clickCount") = N(2) THEN S(<<"dblclick">>) ELSE S(<<"click">>),
             button |-> Get(action, "button"),
             modifiers |-> Get(action, "modifiers"),
             expectations |-> expectFromSignals(action)]
  IN IF Get(action, "clickCount") # N(1) THEN Put(s1, "clickCount", Get(action, "clickCount")) ELSE s1

\* the step built by the switch on action.name (selector and debug not yet set);
\* name is the only token of action.name
StepOfAction(meta, debugOn, aic, selector, action, name) ==
  CASE name \in {"openPage", "navigate"} ->
         [action |-> S(<<"navigate">>), url |-> NavigateUrl(meta, Get(action, "url"))]
    [] name = "click" -> ClickStep(action)
    [] name = "fill" ->
         [action |-> S(<<"fill">>),
          text |-> maybeMaskValue(Get(selector, "element"), Get(action, "text")),
          expectations |-> expectFromSignals(action)]
    [] name = "press" ->
         [action |-> S(<<"press">>), key |-> Get(action, "key"),
          modifiers |-> Get(action, "modifiers"),
          expectations |-> expectFromSignals(action)]
    [] name = "check" -> [action |-> S(<<"check">>), expectations |-> expectFromSignals(action)]
    [] name = "uncheck" -> [action |-> S(<<"uncheck">>), expectations |-> expectFromSignals(action)]
    [] name = "assertText" -> [action |-> S(<<"assert.text">>), text |-> Get(action, "text")]
    [] name = "assertValue" -> [action |-> S(<<"assert.value">>), value |-> Get(action, "value")]
    [] name = "assertVisible" -> [action |-> S(<<"assert.visible">>)]
    [] name = "assertChecked" -> [action |-> S(<<"assertChecked">>), checked |-> Get(action, "checked")]
    [] name = "closePage" -> [action |-> S(<<"closePage">>)]
    [] OTHER ->
         IF debugOn THEN [action |-> S(<<name, " (NOT SUPPORTED)">>)]
         ELSE [action |-> S(<<name, " (NOT SUPPORTED)">>),
               debug |-> O([action_in_context |-> O(aic)])]

StepOf(meta, debugOn, aic, selector) ==
  StepOfAction(meta, debugOn, aic, selector, aic.action.o, aic.action.o.name.s[1])

\* step.debug when the debug flag is on: the payload with what the mapper added
DebugPayload(aic, sink) ==
  IF IsU(sink) THEN O([action_in_context |-> O(aic)])
  ELSE O([action_in_context |-> O(aic), parsed_selector |-> sink])

\* the step with step.selector and step.debug set
FullStep(step, debugOn, aic, bs) ==
  [k \in DOMAIN step \cup {"selector"} \cup (IF debugOn THEN {"debug"} ELSE {}) |->
     CASE k = "selector" -> O(bs.selector)
       [] k = "debug" /\ debugOn -> DebugPayload(aic, bs.sink)
       [] OTHER -> step[k]]

\* the part of generateAction after a retained action is known: isNav tells the
\* navigate case, meta1 is _meta after the case
EmitStep(st, aic, bs, isNav, meta1) ==
  [raised |-> FALSE,
   ret |-> (IF isNav THEN emitHeaderOnce(st.headerEmitted, meta1) ELSE <<>>)
           \o << formatAsYamlListItem(
                   stripDefaults(FullStep(StepOf(meta1, st.debug, aic, bs.selector),
                                          st.debug, aic, bs))) >>,
   headerEmitted |-> IF isNav THEN TRUE ELSE st.headerEmitted,
   meta |-> meta1]

\* a call that leaves the generator as it was
Unchanged(st, ret, raised) ==
  [raised |-> raised, ret |-> ret, headerEmitted |-> st.headerEmitted, meta |-> st.meta]

\* the part of generateAction after buildStructuredSelector returned bs or threw
GenerateActionWith(st, aic, action, name, bs) ==
  IF bs.raised THEN Unchanged(st, <<>>, TRUE)
  ELSE IF name \in {"openPage", "navigate"} THEN
    IF isTrivialUrl(Get(action, "url")) THEN Unchanged(st, <<>>, FALSE)
    ELSE EmitStep(st, aic, bs, TRUE, NavigateMeta(st.meta, action.url))
  ELSE IF name = "fill" /\ maybeMaskValueThrows(Get(bs.selector, "element"), Get(action, "text"))
    THEN Unchanged(st, <<>>, TRUE)
  ELSE EmitStep(st, aic, bs, FALSE, st.meta)

(* generateAction(actionInContext) in the generator state st = [headerEmitted, meta, debug]:
   raised - the call threw; ret - the returned text; headerEmitted, meta - the
   fields after the call *)
generateAction(st, aic) ==
  GenerateActionWith(st, aic, aic.action.o, aic.action.o.name.s[1],
                     buildStructuredSelector(aic, st.debug))

\* a footer that closes the document with a line of its own
generateFooterLine(saveStorage) == << CommentItem(<<"# end">>) >>

\* generateFooter(saveStorage): the returned text
generateFooter(saveStorage) == <<>>

-----------------------------------------------------------------------------
(* Inputs: recorded actions, selectors, URLs *)

Str1(tok) == S(<<tok>>)

Part(name, body, source) == [name |-> name, body |-> body, source |-> source]

\* a part whose body is plain text (css, xpath, text, label, placeholder, has-text, nth)
TextPart(name, t) == Part(name, S(t), S(t))

Attr(name, value, op, caseSensitive) ==
  [name |-> name, value |-> value, op |-> op, caseSensitive |-> caseSensitive]

\* a part whose body goes through the attribute-body parser
AttrPart(name, t, selName, attributes) ==
  Part(name, [s |-> t, attrs |-> [name |-> S(selName), attributes |-> attributes]], S(t))

\* a raw selector string the grammar parses into parts, with a capture index
RawSel(parts, capture) ==
  [s |-> JoinSources(parts), ast |-> [ok |-> TRUE, parts |-> parts, capture |-> capture]]

\* a raw selector string the grammar rejects
SelUnparseable == [s |-> <<"css=", "[">>, ast |-> [ok |-> FALSE, parts |-> <<>>, capture |-> Undef]]

SelCss == RawSel(<< TextPart("css", <<".btn">>) >>, Undef)

SelCssSecret == RawSel(<< TextPart("css", <<"#", "password">>) >>, Undef)

SelXpathSecret == RawSel(<< TextPart("xpath", <<"//input[@name=", "pwd", "]">>) >>, Undef)

SelTestIdSecret ==
  RawSel(<< AttrPart("internal:testid", <<"[data-testid=", Q, "login-", "password", Q, "s", "]">>, <<>>,
                     << Attr("data-testid", S(<<"login-", "password">>), "=", TRUE) >>) >>, Undef)

SelTestIdPlain ==
  RawSel(<< AttrPart("internal:testid", <<"[data-testid=", Q, "user", Q, "s", "]">>, <<>>,
                     << Attr("data-testid", S(<<"user">>), "=", TRUE) >>) >>, Undef)

\* internal:testid=foo: the grammar parses it, the body holds no attribute
SelTestIdNoAttr == RawSel(<< AttrPart("internal:testid", <<"foo">>, <<"foo">>, <<>>) >>, Undef)

SelLabelPlain == RawSel(<< TextPart("internal:label", <<Q, "Email", Q>>) >>, Undef)

SelLabelSecretPlain == RawSel(<< TextPart("internal:label", <<Q, "Password", Q>>) >>, Undef)

SelLabelSecretExact == RawSel(<< TextPart("internal:label", <<Q, "Password", Q, "s">>) >>, Undef)

SelLabelSecretInsens == RawSel(<< TextPart("internal:label", <<Q, "Password", Q, "i">>) >>, Undef)

SelLabelSecretRegex == RawSel(<< TextPart("internal:label", <<"/", "password", "/", "i">>) >>, Undef)

\* internal:label= with an empty body
SelLabelEmpty == RawSel(<< TextPart("internal:label", <<>>) >>, Undef)

SelPlaceholderSecretPlain == RawSel(<< TextPart("internal:placeholder", <<Q, "PWD", Q>>) >>, Undef)

SelPlaceholderSecretRegex == RawSel(<< TextPart("internal:placeholder", <<"/", "pwd", "/">>) >>, Undef)

SelTextSecretExact == RawSel(<< TextPart("internal:text", <<Q, "SECRET", Q, "s">>) >>, Undef)

SelTextSecretRegex == RawSel(<< TextPart("internal:text", <<"/", "secret", "/", "i">>) >>, Undef)

SelRolePlain ==
  RawSel(<< AttrPart("internal:role", <<"button", "[name=", Q, "Submit", Q, "i", "]">>, <<"button">>,
                     << Attr("name", S(<<"Submit">>), "=", FALSE) >>) >>, Undef)

SelRoleSecretInsens ==
  RawSel(<< AttrPart("internal:role", <<"textbox", "[name=", Q, "Password", Q, "i", "]">>, <<"textbox">>,
                     << Attr("name", S(<<"Password">>), "=", FALSE) >>) >>, Undef)

SelRoleSecretExact ==
  RawSel(<< AttrPart("internal:role", <<"textbox", "[name=", Q, "Password", Q, "s", "]">>, <<"textbox">>,
                     << Attr("name", S(<<"Password">>), "=", TRUE) >>) >>, Undef)

SelRoleSecretRegex ==
  RawSel(<< AttrPart("internal:role", <<"textbox", "[name=", "/", "secret", "/", "i", "]">>, <<"textbox">>,
                     << Attr("name", RE(<<"secret">>, <<"i">>), "=", TRUE) >>) >>, Undef)

SelRoleNoName == RawSel(<< AttrPart("internal:role", <<"checkbox">>, <<"checkbox">>, <<>>) >>, Undef)

\* css=.btn >> internal:has-text="Go" >> nth=2
SelChain ==
  RawSel(<< TextPart("css", <<".btn">>), TextPart("internal:has-text", <<Q, "Go", Q>>),
            TextPart("nth", <<"2">>) >>, Undef)

\* css=.form >> internal:role=button with the capture index on the first part
SelCapture ==
  RawSel(<< TextPart("css", <<".form">>),
            AttrPart("internal:role", <<"button">>, <<"button">>, <<>>) >>, N(0))

\* an engine the mapper has no case for
SelUnknownEngine ==
  RawSel(<< AttrPart("internal:attr", <<"[alt=", Q, "Logo", Q, "]">>, <<>>,
                     << Attr("alt", S(<<"Logo">>), "=", FALSE) >>) >>, Undef)

\* internal:label="a.b"i : a special character in the quoted text
SelLabelDotInsens == RawSel(<< TextPart("internal:label", <<Q, "a", ".", "b", Q, "i">>) >>, Undef)

\* internal:label="a\"b"s : an escaped quote in the quoted text
SelLabelQuoteExact ==
  RawSel(<< TextPart("internal:label", <<Q, "a", "\\", Q, "b", Q, "s">>) >>, Undef)

\* internal:text="a\xb"i and internal:placeholder="a\xb"s : no JSON string
SelTextBadJsonInsens ==
  RawSel(<< TextPart("internal:text", <<Q, "a", "\\", "x", "b", Q, "i">>) >>, Undef)

SelPlaceholderBadJsonExact ==
  RawSel(<< TextPart("internal:placeholder", <<Q, "a", "\\", "x", "b", Q, "s">>) >>, Undef)

\* css=.form >> internal:role=button[name="Submit"i]
SelPrefixRole ==
  RawSel(<< TextPart("css", <<".form">>),
            AttrPart("internal:role", <<"button", "[name=", Q, "Submit", Q, "i", "]">>, <<"button">>,
                     << Attr("name", S(<<"Submit">>), "=", FALSE) >>) >>, Undef)

\* css=.form >> css=.btn >> internal:has-text="Go" >> nth=2
SelPrefixChain ==
  RawSel(<< TextPart("css", <<".form">>), TextPart("css", <<".btn">>),
            TextPart("internal:has-text", <<Q, "Go", Q>>), TextPart("nth", <<"2">>) >>, Undef)

\* css=.form >> internal:label="Email" >> nth=1 with the capture index on the label part
SelPrefixCapture ==
  RawSel(<< TextPart("css", <<".form">>), TextPart("internal:label", <<Q, "Email", Q>>),
            TextPart("nth", <<"1">>) >>, N(1))

\* css=.btn >> visible=true
SelChainVisible ==
  RawSel(<< TextPart("css", <<".btn">>), TextPart("visible", <<"true">>) >>, Undef)

\* css=.btn >> internal:describe="Go button"
SelChainDescribe ==
  RawSel(<< TextPart("css", <<".btn">>), TextPart("internal:describe", <<Q, "Go button", Q>>) >>,
         Undef)

\* a chain of filter parts only, written without blanks around ">>"
SelFiltersOnly ==
  [s |-> <<"internal:has-text", "=", Q, "Go", Q, ">>", "nth", "=", "2">>,
   ast |-> [ok |-> TRUE,
            parts |-> << TextPart("internal:has-text", <<Q, "Go", Q>>), TextPart("nth", <<"2">>) >>,
            capture |-> Undef]]

\* the selectors whose element names a secret field
SecretSelectors ==
  {SelCssSecret, SelXpathSecret, SelTestIdSecret, SelLabelSecretPlain, SelLabelSecretExact,
   SelLabelSecretInsens, SelLabelSecretRegex, SelPlaceholderSecretPlain,
   SelPlaceholderSecretRegex, SelTextSecretExact, SelTextSecretRegex, SelRoleSecretInsens,
   SelRoleSecretExact, SelRoleSecretRegex}

\* the selectors the grammar parses
ParseableSelectors ==
  SecretSelectors \cup
  {SelCss, SelTestIdPlain, SelTestIdNoAttr, SelLabelPlain, SelLabelEmpty, SelRolePlain,
   SelRoleNoName, SelChain, SelCapture, SelUnknownEngine, SelChainVisible, SelChainDescribe,
   SelFiltersOnly, SelLabelDotInsens, SelLabelQuoteExact, SelTextBadJsonInsens,
   SelPlaceholderBadJsonExact, SelPrefixRole, SelPrefixChain, SelPrefixCapture}

Selectors == ParseableSelectors \cup {SelUnparseable}

MainFrame == O([pageAlias |-> Str1("page"), framePath |-> A(<<>>)])

ChildFrame ==
  O([pageAlias |-> Str1("page"),
     framePath |-> A(<< S(<<"frame[name=", Q, "main", Q, "]">>), S(<<"iframe">>) >>)])

InContext(frame, action) == [frame |-> frame, action |-> O(action)]

UrlExampleOrigin == S(<<"https://", "example.com">>)

UrlExamplePath == S(<<"https://", "example.com", "/a/b", "?x=1">>)

UrlOther == S(<<"https://", "other.com", "/">>)

UrlMalformed == S(<<"not a url">>)

RetainedUrls == {UrlExampleOrigin, UrlExamplePath, UrlOther, UrlMalformed}

\* one URL for each trivial prefix, bare or followed by more text
TrivialUrls ==
  {S(<<"about:blank">>), S(<<"about:blank", "#x">>), S(<<"chrome-error://", "chromewebdata/">>),
   S(<<"devtools://", "devtools">>), S(<<"edge://", "newtab">>), S(<<"data:", "text/html,x">>),
   S(<<"blob:", "https://", "example.com", "/id">>), S(<<"chrome-extension://", "abc">>)}

NavigateActions ==
  {[name |-> Str1("navigate"), url |-> u] : u \in RetainedUrls \cup TrivialUrls \cup {S(<<>>)}}
  \cup {[name |-> Str1("navigate")]}
  \cup {[name |-> Str1("openPage"), url |-> u] :
          u \in {S(<<"about:blank">>), S(<<"chrome-error://", "chromewebdata/">>), UrlExamplePath}}

Texts == {Str1("hunter2"), Str1("hunter3")}

FillActions ==
  {[name |-> Str1("fill"), selector |-> sel, text |-> t] : sel \in Selectors, t \in Texts}
  \cup {[name |-> Str1("fill"), selector |-> SelTestIdSecret]}

ClickAction(sel, clickCount, modifiers) ==
  [name |-> Str1("click"), selector |-> sel, button |-> Str1("left"),
   modifiers |-> N(modifiers), clickCount |-> N(clickCount)]

\* the actions the generator is driven with in Spec
Actions ==
  NavigateActions
  \cup {ClickAction(SelCss, 1, 0), ClickAction(SelCss, 2, 9), ClickAction(SelTestIdNoAttr, 1, 0)}
  \cup {[name |-> Str1("fill"), selector |-> SelTestIdSecret, text |-> Str1("hunter2")],
        [name |-> Str1("fill"), selector |-> SelLabelEmpty, text |-> Str1("hunter2")],
        [name |-> Str1("press"), selector |-> SelCss, key |-> Str1("Enter"), modifiers |-> N(0)],
        [name |-> Str1("assertVisible"), selector |-> SelLabelPlain],
        [name |-> Str1("closePage")],
        [name |-> Str1("select"), selector |-> SelCss, options |-> A(<<Str1("a")>>)]}

ActionsInContext == {InContext(MainFrame, a) : a \in Actions}

\* click counts and modifier masks of recorded clicks and key presses
ClickCounts == {1, 2, 3}

ModifierMasks == {0, 1, 2, 9, 15, 16}

SigNavigation(url) == O([name |-> Str1("navigation"), url |-> url])

SigPopup == O([name |-> Str1("popup"), popupAlias |-> Str1("page1")])

\* a popup signal recorded without the alias of the new page
SigPopupNoAlias == O([name |-> Str1("popup")])

SigDownload == O([name |-> Str1("download"), downloadAlias |-> Str1("download")])

SigDialog == O([name |-> Str1("dialog"), dialogAlias |-> Str1("dialog")])

\* a signal kind the generator does not know
SigOther == O([name |-> Str1("console")])

\* the signals arrays of recorded actions
SignalLists ==
  {<<>>, <<SigOther>>, <<SigPopupNoAlias>>,
   <<SigNavigation(UrlExamplePath), SigOther, SigPopup>>,
   <<SigDialog, SigNavigation(S(<<"about:blank">>)), SigDownload>>,
   <<SigNavigation(Undef), SigNavigation(UrlMalformed)>>}

\* the actions the mapper is driven with in SpecMap
MapActions ==
  FillActions
  \cup {ClickAction(sel, 1, 0) : sel \in Selectors}
  \cup {[name |-> Str1("hover"), selector |-> SelCss], [name |-> Str1("closePage")]}
  \cup {[name |-> Str1("click"), selector |-> Undef, button |-> Str1("left"),
         modifiers |-> N(0), clickCount |-> N(1)]}
  \cup {ClickAction(SelCss, clickCount, modifiers) :
          clickCount \in ClickCounts, modifiers \in ModifierMasks}
  \cup {[name |-> Str1("click"), selector |-> SelCss, button |-> Str1("left")]}
  \cup {[name |-> Str1("press"), selector |-> SelCss, key |-> Str1("Enter"),
         modifiers |-> N(modifiers)] : modifiers \in ModifierMasks}
  \cup {[name |-> Str1("press"), selector |-> SelCss, key |-> Str1("Enter")]}
  \cup {Put(ClickAction(SelCss, 1, 0), "signals", A(signals)) : signals \in SignalLists}
  \cup {[name |-> Str1(name), selector |-> SelCss, signals |-> A(signals)] :
          name \in {"check", "uncheck", "assertVisible"}, signals \in SignalLists}
  \cup {[name |-> Str1("fill"), selector |-> SelCss, text |-> Str1("hunter2"),
         signals |-> A(signals)] : signals \in SignalLists}
  \cup {[name |-> Str1("select"), selector |-> sel, options |-> A(<<Str1("a")>>),
         signals |-> A(<<>>)] : sel \in {SelCss, SelTestIdNoAttr}}

MapActionsInContext ==
  {InContext(MainFrame, a) : a \in MapActions}
  \cup {InContext(ChildFrame, ClickAction(SelCss, 1, 0))}

\* the baseURL option of generateHeader: absent, empty, a URL, no URL
BaseUrlOptions == {Undef, S(<<>>), UrlExampleOrigin, UrlMalformed}

-----------------------------------------------------------------------------
(* The generator driven by one sequential caller *)

\* the URL prefixes of a trivial navigation, as the recorder's caller knows them
TrivialPrefixTokens ==
  {"about:blank", "data:", "blob:", "chrome-error://", "devtools://", "edge://",
   "chrome-extension://"}

\* the recorded action is a navigate or openPage whose URL is absent, empty or
\* starts with a trivial prefix: an action that is not retained
IsTrivialNavigation(action) ==
  /\ action.name \in {Str1("navigate"), Str1("openPage")}
  /\ \/ ~Truthy(Get(action, "url"))
     \/ action.url.s[1] \in TrivialPrefixTokens

-----------------------------------------------------------------------------
(* Frame tree dump: scheduleDumpFrameTree, dumpFrameTree *)

\* the labels of the frames of the page: the main frame, its two children and
\* the child of the first child
Frames == {"main", "main-child0", "main-child1", "main-child0-child0"}

\* frame.childFrames(), as labels
childFrames(f) ==
  CASE f = "main" -> <<"main-child0", "main-child1">>
    [] f = "main-child0" -> <<"main-child0-child0">>
    [] OTHER -> <<>>

IsChildOf(c, f) == \E i \in 1..Len(childFrames(f)) : childFrames(f)[i] = c

(* the dump as the event loop sees it:
   caller - scheduleDumpFrameTree not called, running, returned;
   outDir - GENFEST_HTML_DIR was set at the call;
   task - the callback given to setImmediate: none, queued, awaiting mkdir,
          running the dumps, settled;
   io - some file system or frame I/O was started;
   frames - each dump(frame): idle, awaiting content, awaiting writeFile,
            awaiting its children, done;
   files, failed - the frames whose file was written, whose dump failed;
   log - the messages given to debugLogger.log;
   rejection - what became of a rejected dumpFrameTree promise *)
DumpIdle ==
  [caller |-> "idle", outDir |-> FALSE, task |-> "none", io |-> FALSE,
   frames |-> [f \in Frames |-> "idle"], files |-> {}, failed |-> {}, log |-> <<>>,
   rejection |-> "none"]

\* dumpFrameTree called at once, not from a setImmediate callback
scheduleDumpFrameTreeInline(d, outDir) ==
  IF ~outDir THEN d ELSE [d EXCEPT !.outDir = TRUE, !.task = "mkdir", !.io = TRUE]

\* scheduleDumpFrameTree(page, name) up to its return
scheduleDumpFrameTree(d, outDir) ==
  IF ~outDir THEN d ELSE [d EXCEPT !.outDir = TRUE, !.task = "queued"]

\* dump(frame, label) up to its first await: frame.content() is started
StartDump(d, f) == [d EXCEPT !.frames[f] = "content"]

\* Promise.all(frame.childFrames().map(dump)): every child dump is started
StartChildren(d, f) ==
  [d EXCEPT !.frames = [g \in Frames |-> IF g = f THEN "children"
                                         ELSE IF IsChildOf(g, f) THEN "content"
                                         ELSE d.frames[g]]]

\* the catch block of dump: the failure is logged
LogFailure(d, f) ==
  [d EXCEPT !.failed = @ \cup {f}, !.log = Append(@, <<"dump failed", f>>)]

\* a dump that returns from its catch block
AfterFrameFailureReturn(d, f) == [LogFailure(d, f) EXCEPT !.frames[f] = "done"]

\* dump after its catch block: the children are dumped
AfterFrameFailure(d, f) == StartChildren(LogFailure(d, f), f)

\* the .catch of scheduleDumpFrameTree: dumpFrameTree rejected
DumpRejected(d) ==
  [d EXCEPT !.task = "settled", !.rejection = "caught",
            !.log = Append(@, <<"[dumpFrameTree] error">>)]

\* calls of generateAction after a generateHeader that the model follows
MaxRetained == 2

MaxTrivial == 2

VARIABLES
  headerEmitted,  \* _headerEmitted
  seedUrl,        \* _seedUrl
  meta,           \* _meta
  debug,          \* _debug
  doc,            \* the kinds of the items returned by generateAction since the last generateHeader
  calls,          \* what the caller did since the last generateHeader
  last,           \* the last call: operation, input, returned text, whether it threw
  dump            \* the frame tree dump

vars == <<headerEmitted, seedUrl, meta, debug, doc, calls, last, dump>>

Kinds(ret) == [i \in 1..Len(ret) |-> ret[i].kind]

NoCalls == [header |-> FALSE, trivial |-> 0, retained |-> 0, raised |-> 0]

Init ==
  /\ headerEmitted = FALSE
  /\ seedUrl = Undef
  /\ meta = InitMeta
  /\ debug = FALSE
  /\ doc = <<>>
  /\ calls = NoCalls
  /\ last = [op |-> "none", input |-> Undef, ret |-> <<>>, raised |-> FALSE]
  /\ dump = DumpIdle

\* generateHeader(options) with process.env.GENFEST_HTML_DIR set (env) or not
GenerateHeaderCall(baseURL, env) ==
  /\ debug' = (debug \/ env)
  /\ seedUrl' = OrElse(baseURL, Undef)
  /\ IF generateHeaderThrows(baseURL)
     THEN /\ UNCHANGED <<meta, headerEmitted>>
          /\ calls' = NoCalls
          /\ last' = [op |-> "generateHeader", input |-> O([baseURL |-> baseURL, env |-> B(env)]),
                      ret |-> <<>>, raised |-> TRUE]
     ELSE /\ meta' = HeaderMeta(baseURL)
          /\ headerEmitted' = FALSE
          /\ calls' = [NoCalls EXCEPT !.header = TRUE]
          /\ last' = [op |-> "generateHeader", input |-> O([baseURL |-> baseURL, env |-> B(env)]),
                      ret |-> << CommentItem(<<"# Generated by Genfest">>) >>, raised |-> FALSE]
  /\ doc' = <<>>
  /\ UNCHANGED dump

\* the caller's bookkeeping after generateAction returned r or threw
GenerateActionResult(aic, r, trivial) ==
  /\ IF trivial THEN calls.trivial < MaxTrivial ELSE calls.retained < MaxRetained
  /\ headerEmitted' = r.headerEmitted
  /\ meta' = r.meta
  /\ doc' = doc \o Kinds(r.ret)
  /\ calls' = IF trivial THEN [calls EXCEPT !.trivial = @ + 1]
              ELSE IF r.raised THEN [calls EXCEPT !.retained = @ + 1, !.raised = @ + 1]
              ELSE [calls EXCEPT !.retained = @ + 1]
  /\ last' = [op |-> "generateAction", input |-> O(aic), ret |-> r.ret, raised |-> r.raised]
  /\ UNCHANGED <<seedUrl, debug, dump>>

GenerateActionReturned(aic, r) == GenerateActionResult(aic, r, IsTrivialNavigation(aic.action.o))

\* generateAction(actionInContext)
GenerateActionCall(aic) ==
  GenerateActionReturned(aic, generateAction([headerEmitted |-> headerEmitted, meta |-> meta,
                                              debug |-> debug], aic))

\* generateFooter(saveStorage)
GenerateFooterCall ==
  /\ last' = [op |-> "generateFooter", input |-> Undef, ret |-> generateFooter(Undef), raised |-> FALSE]
  /\ UNCHANGED <<headerEmitted, seedUrl, meta, debug, doc, calls, dump>>

GenerateHeader == \E baseURL \in BaseUrlOptions, env \in BOOLEAN : GenerateHeaderCall(baseURL, env)

GenerateAction == \E aic \in ActionsInContext : GenerateActionCall(aic)

GenerateFooter == GenerateFooterCall

Next == GenerateHeader \/ GenerateAction \/ GenerateFooter

Spec == Init /\ [][Next]_vars

\* the mapper alone: one generateHeader without options, then one generateAction
MapHeader == last.op = "none" /\ \E env \in BOOLEAN : GenerateHeaderCall(Undef, env)

MapAction == last.op = "generateHeader" /\ \E aic \in MapActionsInContext : GenerateActionCall(aic)

MapNext == MapHeader \/ MapAction

SpecMap == Init /\ [][MapNext]_vars

\* the generator's fields, which the dump does not touch
generatorVars == <<headerEmitted, seedUrl, meta, debug, doc, calls, last>>

\* the caller enters scheduleDumpFrameTree with GENFEST_HTML_DIR set (outDir) or not
ScheduleCall(outDir) ==
  /\ dump.caller = "idle"
  /\ dump' = [scheduleDumpFrameTree(dump, outDir) EXCEPT !.caller = "calling"]
  /\ UNCHANGED generatorVars

\* scheduleDumpFrameTree returns to its caller
ScheduleReturn ==
  /\ dump.caller = "calling"
  /\ dump' = [dump EXCEPT !.caller = "returned"]
  /\ UNCHANGED generatorVars

\* the event loop runs the setImmediate callback, once the caller's turn is
\* over: dumpFrameTree starts fs.mkdir
RunImmediate ==
  /\ dump.task = "queued" /\ dump.caller = "returned"
  /\ dump' = [dump EXCEPT !.task = "mkdir", !.io = TRUE]
  /\ UNCHANGED generatorVars

\* fs.mkdir settles: dump(mainFrame, 'main') starts, or dumpFrameTree rejects
MkdirDone(ok) ==
  /\ dump.task = "mkdir"
  /\ dump' = IF ok THEN StartDump([dump EXCEPT !.task = "running"], "main")
             ELSE DumpRejected(dump)
  /\ UNCHANGED generatorVars

\* frame.content() settles
ContentDone(f, ok) ==
  /\ dump.task = "running" /\ dump.frames[f] = "content"
  /\ dump' = IF ok THEN [dump EXCEPT !.frames[f] = "write"] ELSE AfterFrameFailure(dump, f)
  /\ UNCHANGED generatorVars

\* fs.writeFile settles
WriteDone(f, ok) ==
  /\ dump.task = "running" /\ dump.frames[f] = "write"
  /\ dump' = IF ok THEN StartChildren([dump EXCEPT !.files = @ \cup {f}], f)
             ELSE AfterFrameFailure(dump, f)
  /\ UNCHANGED generatorVars

\* Promise.all of the child dumps resolves: dump(frame) returns
FrameDone(f) ==
  /\ dump.task = "running" /\ dump.frames[f] = "children"
  /\ \A g \in Frames : IsChildOf(g, f) => dump.frames[g] = "done"
  /\ dump' = [dump EXCEPT !.frames[f] = "done"]
  /\ UNCHANGED generatorVars

\* dump(mainFrame) returned: the dumpFrameTree promise resolves
DumpResolved ==
  /\ dump.task = "running" /\ dump.frames["main"] = "done"
  /\ dump' = [dump EXCEPT !.task = "settled"]
  /\ UNCHANGED generatorVars

Schedule == \E outDir \in BOOLEAN : ScheduleCall(outDir)

Mkdir == \E ok \in BOOLEAN : MkdirDone(ok)

Content == \E f \in Frames, ok \in BOOLEAN : ContentDone(f, ok)

Write == \E f \in Frames, ok \in BOOLEAN : WriteDone(f, ok)

Frame == \E f \in Frames : FrameDone(f)

DumpNext ==
  Schedule \/ ScheduleReturn \/ RunImmediate \/ Mkdir \/ Content \/ Write \/ Frame
  \/ DumpResolved

SpecDump == Init /\ [][DumpNext]_vars

-----------------------------------------------------------------------------
(* What the claims speak of *)

LastIsAction == last.op = "generateAction"

LastAction == last.input.o.action.o

LastIsRetained == LastIsAction /\ ~IsTrivialNavigation(LastAction)

LastIsNavigation == LastIsAction /\ LastAction.name \in {Str1("navigate"), Str1("openPage")}

\* the number of step entries in a returned text
StepCount(ret) == Cardinality({i \in 1..Len(ret) : ret[i].kind = "step"})

\* the step entry of the last returned text
LastStep == last.ret[Len(last.ret)].body.o

HeaderWritten == \E i \in 1..Len(doc) : doc[i] = "header"

\* scheme + host + port of a URL that parses
OriginOf(url) ==
  IF Len(url.s) >= 3 /\ url.s[3] \in {":8080"} THEN S(SubSeq(url.s, 1, 3))
  ELSE S(SubSeq(url.s, 1, 2))

\* path + query + fragment of a URL that parses ("/" when the URL ends after the host)
PathOf(url) ==
  LET rest == SubSeq(url.s, Len(OriginOf(url).s) + 1, Len(url.s))
  IN IF rest = <<>> THEN S(<<"/">>) ELSE S(rest)

IsHttpUrl(url) == Truthy(url) /\ UrlParses(url.s) /\ UrlIsHttp(url.s)

-----------------------------------------------------------------------------
(* C1: in the concatenation of the texts generateAction returned after a
   generateHeader call, the header block comes before the first step entry,
   whatever the kind of the first retained action. *)
C1_HeaderBeforeFirstStep ==
  (calls.header /\ \E i \in 1..Len(doc) : doc[i] = "step") => doc[1] = "header"

(* C2: after one generateHeader, when exactly one of the generateAction calls
   was on a retained action and all the others on trivial navigations, the
   concatenated output is exactly one header block followed by exactly one
   step entry. *)
C2_HeaderOnce ==
  (calls.header /\ calls.retained = 1) => doc = <<"header", "step">>

(* C3: a navigate or openPage with a trivial URL makes generateAction return an
   empty text and leaves the header-emitted flag, baseURL, name and version
   (and every other field) as they were. *)
C3_TrivialNoEffect ==
  [][(last'.op = "generateAction" /\ IsTrivialNavigation(last'.input.o.action.o))
       => /\ last'.ret = <<>>
          /\ ~last'.raised
          /\ headerEmitted' = headerEmitted
          /\ meta' = meta
          /\ seedUrl' = seedUrl
          /\ debug' = debug
          /\ doc' = doc]_vars

\* a trivial navigation (about:blank) was passed while no header is written yet
C3_Witness ==
  /\ LastIsAction
  /\ LastAction = [name |-> Str1("navigate"), url |-> S(<<"about:blank">>)]
  /\ calls.header
  /\ ~headerEmitted
  /\ doc = <<>>

(* C4: every generateAction call on a retained action returns a text holding
   exactly one step entry (no step is dropped, merged or held back). *)
C4_OneStepPerCall ==
  LastIsRetained => (~last.raised /\ StepCount(last.ret) = 1)

(* C5: once the header block has been returned, no later generateAction or
   generateFooter call changes version, name or baseURL. *)
C5_MetaFixedAfterHeader ==
  [][(HeaderWritten /\ last'.op \in {"generateAction", "generateFooter"}) => meta' = meta]_vars

\* a second retained navigation, to another origin, after the header was written
C5_Witness ==
  /\ LastIsNavigation
  /\ "url" \in DOMAIN LastAction
  /\ LastAction.url = UrlOther
  /\ doc = <<"header", "step", "step">>
  /\ meta.baseURL # UrlOther

(* C6: with no baseURL set, the first retained navigation sets baseURL to the
   origin of its URL, not the full URL. *)
C6_BaseUrlIsOrigin ==
  (/\ LastIsNavigation /\ LastIsRetained /\ ~last.raised
   /\ calls.header /\ calls.retained = 1 /\ ~Truthy(seedUrl)
   /\ IsHttpUrl(LastAction.url))
    => meta.baseURL = OriginOf(LastAction.url)

(* C7: the step url of a retained navigation is path + query + fragment when
   the URL has the origin of baseURL, and the unchanged URL otherwise. *)
C7_RelativeUrl ==
  (/\ LastIsNavigation /\ LastIsRetained /\ ~last.raised /\ calls.header
   /\ IsHttpUrl(LastAction.url) /\ IsHttpUrl(meta.baseURL))
    => LastStep.url = IF OriginOf(LastAction.url) = OriginOf(meta.baseURL)
                      THEN PathOf(LastAction.url)
                      ELSE LastAction.url

\* a text matcher or plain field value matches password|pwd|secret, in every form
FieldIsSecret(v) ==
  IF IsS(v) THEN SecretRxTest(v.s)
  ELSE IF IsRE(v) THEN SecretRxTest(v.re.source)
  ELSE IF IsO(v) THEN
    \/ "value" \in DOMAIN v.o /\ SecretRxTest(v.o.value.s)
    \/ "pattern" \in DOMAIN v.o /\ SecretRxTest(v.o.pattern.s)
  ELSE FALSE

\* the discriminating field of the element matches
ElementIsSecret(el) ==
  \E k \in DOMAIN el \cap {"testId", "label", "placeholder", "name", "text", "css", "xpath"} :
    FieldIsSecret(el[k])

\* the element the mapper resolved for the last action
LastElement == elementFromParsedSelector(LastAction.selector, FALSE).element

LastIsSecretFill ==
  /\ LastIsAction /\ ~last.raised
  /\ LastAction.name = Str1("fill")
  /\ "text" \in DOMAIN LastAction
  /\ "selector" \in DOMAIN LastAction
  /\ ElementIsSecret(LastElement)

(* C8: a fill with a text value whose resolved element names a secret field
   (in any text matcher form) carries the masked placeholder as its text. *)
C8_SecretMasked == LastIsSecretFill => LastStep.text = MaskToken

(* C9: the text returned for a fill on a secret field does not depend on the
   recorded text value, with the debug flag off and on. *)
C9_TextIndependent ==
  LastIsSecretFill =>
    \A t \in Texts :
      generateAction([headerEmitted |-> headerEmitted, meta |-> meta, debug |-> debug],
                     InContext(last.input.o.frame, [LastAction EXCEPT !.text = t])).ret = last.ret

(* C10: for every raw selector the grammar parses, the mapper returns a result
   with an element and does not raise. *)
C10_MapperTotal ==
  (LastIsAction /\ "selector" \in DOMAIN LastAction /\ parseSelector(LastAction.selector).ok)
    => LET m == elementFromParsedSelector(LastAction.selector, debug)
       IN ~m.raised /\ ~m.none /\ DOMAIN m.element # {}

-----------------------------------------------------------------------------
\* the engines the documented base-index scan skips
DocumentedFilterEngines ==
  {"internal:has-text", "internal:has-not-text", "internal:has", "internal:has-not",
   "visible", "nth"}

DocumentedIgnoreEngines == {"internal:describe"}

\* the 0-based positions of the parts that are neither filter nor ignored parts
QualifyingParts(parsed) ==
  {i \in 0..(Len(parsed.parts) - 1) :
     parsed.parts[i + 1].name \notin DocumentedFilterEngines \cup DocumentedIgnoreEngines}

HasCapture(parsed) == IsN(parsed.capture) /\ parsed.capture.n >= 0

\* the documented base index of a chain that has a capture index or a qualifying part
DocumentedBaseIndex(parsed) ==
  IF HasCapture(parsed) THEN parsed.capture.n
  ELSE CHOOSE i \in QualifyingParts(parsed) : \A j \in QualifyingParts(parsed) : j <= i

\* the last call was generateAction on an action whose selector the grammar parses
LastHasParsedSelector ==
  /\ LastIsAction
  /\ "selector" \in DOMAIN LastAction
  /\ Truthy(LastAction.selector)
  /\ parseSelector(LastAction.selector).ok

LastParsed == parseSelector(LastAction.selector)

LastMapped == elementFromParsedSelector(LastAction.selector, debug)

(* C11: the base part is the part at the capture index when there is one,
   otherwise the last part that is neither a filter part (has-text,
   has-not-text, has, has-not, visible, nth) nor an ignored part (describe);
   for css=.btn >> internal:has-text="Go" >> nth=2 the element is the css
   part, filters.hasText the matcher for "Go" and nth is 2. *)
C11_BaseIndexResolution ==
  (LastHasParsedSelector /\ (HasCapture(LastParsed) \/ QualifyingParts(LastParsed) # {}))
    => /\ BaseIndex(LastParsed) = DocumentedBaseIndex(LastParsed)
       /\ LastAction.selector = SelChain =>
             /\ LastMapped.element = [css |-> S(<<".btn">>)]
             /\ LastMapped.filters = O([hasText |-> S(<<"Go">>)])
             /\ LastMapped.nth = N(2)

(* C12: a chain without capture index in which every part is a filter part or
   an ignored part maps to an element css that holds the raw selector string. *)
C12_NoQualifyingPart ==
  (LastHasParsedSelector /\ ~HasCapture(LastParsed) /\ QualifyingParts(LastParsed) = {})
    => /\ ~LastMapped.raised /\ ~LastMapped.none
       /\ LastMapped.element = [css |-> Str(LastAction.selector)]

(* C13: for a selector string the grammar rejects the mapper returns no result
   without raising and the emitted element is css with the raw string; an
   action with a selector field and no raw string gets css "UNKNOWN"; so every
   action that has a selector field is emitted with a selector element. *)
C13_SelectorFallback ==
  (LastIsAction /\ "selector" \in DOMAIN LastAction /\ ~last.raised)
    => /\ "selector" \in DOMAIN LastStep
       /\ "element" \in DOMAIN LastStep.selector.o
       /\ IsU(LastAction.selector) =>
             LastStep.selector.o.element = O([css |-> S(<<"UNKNOWN">>)])
       /\ (~IsU(LastAction.selector) /\ ~parseSelector(LastAction.selector).ok) =>
             /\ LastMapped.none /\ ~LastMapped.raised
             /\ LastStep.selector.o.element = O([css |-> Str(LastAction.selector)])

-----------------------------------------------------------------------------
\* the action names generateAction has a case for
RecognizedActionNames ==
  {"openPage", "navigate", "click", "fill", "press", "check", "uncheck", "assertText",
   "assertValue", "assertVisible", "assertChecked", "closePage"}

LastName == LastAction.name.s[1]

(* C14: for an action whose name is not recognized generateAction does not
   raise and returns exactly one step entry, tagged with the original name
   followed by the unsupported marker and carrying a debug payload that holds
   the original action in context, with the debug flag off and on. *)
C14_UnsupportedPassthrough ==
  (LastIsAction /\ LastName \notin RecognizedActionNames)
    => /\ ~last.raised
       /\ StepCount(last.ret) = 1
       /\ LastStep.action = S(<<LastName, " (NOT SUPPORTED)">>)
       /\ "debug" \in DOMAIN LastStep
       /\ "action_in_context" \in DOMAIN LastStep.debug.o
       /\ LastStep.debug.o.action_in_context.o.action.o.name = LastAction.name

\* the base part of the last selector is a role part whose name attribute is
\* a quoted string with the case-insensitive marker
LastIsRoleInsensitive ==
  /\ LastHasParsedSelector
  /\ ~HasCapture(LastParsed)
  /\ Len(LastParsed.parts) = 1
  /\ LastParsed.parts[1].name = "internal:role"
  /\ LET attributes == parseAttributeSelector(LastParsed.parts[1].body).attributes
     IN /\ Len(attributes) = 1
        /\ attributes[1].name = "name"
        /\ IsS(attributes[1].value)
        /\ ~attributes[1].caseSensitive

LastRoleAttr == parseAttributeSelector(LastParsed.parts[1].body).attributes[1]

(* C15 as stated: for a role part whose name is a quoted string with the
   case-insensitive marker (button[name="Submit"i]) the element is a role
   element whose name matcher is a case-insensitive regular expression
   equivalent to the literal text, not a plain string. *)
C15_RoleNameIsRegex ==
  LastIsRoleInsensitive
    => /\ ~LastMapped.raised
       /\ LastMapped.element.role = parseAttributeSelector(LastParsed.parts[1].body).name
       /\ LastMapped.element.name = RE(escapeRegex(LastRoleAttr.value.s), <<"i">>)

(* C15 as amended: for such a role part the element is a role element with the
   role of the body whose name is the plain text of the attribute ("Submit");
   no regular expression is built from the case-insensitive marker. *)
C15_RoleNameIsPlain ==
  LastIsRoleInsensitive
    => /\ ~LastMapped.raised
       /\ LastMapped.element.role = parseAttributeSelector(LastParsed.parts[1].body).name
       /\ LastMapped.element.name = LastRoleAttr.value
       /\ ~last.raised => LastStep.selector.o.element.o.name = LastRoleAttr.value

\* a click on internal:role=button[name="Submit"i] was emitted
C15_Witness ==
  /\ LastIsRoleInsensitive
  /\ LastAction.selector = SelRolePlain
  /\ LastName = "click"
  /\ ~last.raised
  /\ LastStep.selector.o.element = O([role |-> S(<<"button">>), name |-> S(<<"Submit">>)])

\* the names of the bits set in a modifier mask, in the order Alt, Control, Meta, Shift
ModifierNames(mask) ==
  (IF (mask \div 1) % 2 = 1 THEN <<S(<<"Alt">>)>> ELSE <<>>)
  \o (IF (mask \div 2) % 2 = 1 THEN <<S(<<"Control">>)>> ELSE <<>>)
  \o (IF (mask \div 4) % 2 = 1 THEN <<S(<<"Meta">>)>> ELSE <<>>)
  \o (IF (mask \div 8) % 2 = 1 THEN <<S(<<"Shift">>)>> ELSE <<>>)

LastMaskNames ==
  IF IsN(Get(LastAction, "modifiers")) THEN ModifierNames(LastAction.modifiers.n) ELSE <<>>

(* C16: the modifiers field of a click or press step is the list of the names
   whose bit is set in the mask, in the order Alt (1), Control (2), Meta (4),
   Shift (8); with a mask that is zero, absent or without any of the four
   bits the step has no modifiers field. *)
C16_ModifierDecode ==
  (LastIsAction /\ LastName \in {"click", "press"} /\ ~last.raised)
    => IF LastMaskNames = <<>> THEN "modifiers" \notin DOMAIN LastStep
       ELSE Get(LastStep, "modifiers") = A(LastMaskNames)

(* C17: a click with clickCount 2 gives a dblclick step, any other clickCount
   a click step; the step carries clickCount only when it is a click step and
   clickCount differs from 1. *)
C17_ClickCount ==
  (LastIsAction /\ LastName = "click" /\ ~last.raised)
    => LET clickCount == Get(LastAction, "clickCount")
       IN /\ LastStep.action = IF clickCount = N(2) THEN S(<<"dblclick">>) ELSE S(<<"click">>)
          /\ IF IsN(clickCount) /\ clickCount.n \notin {1, 2}
             THEN Get(LastStep, "clickCount") = clickCount
             ELSE "clickCount" \notin DOMAIN LastStep

-----------------------------------------------------------------------------
RecognizedSignalNames == {"navigation", "popup", "download", "dialog"}

\* the signals of a recognized kind, in signal order
RecognizedSignals(signals) ==
  SelectSeq(signals, LAMBDA sg : sg.o.name.s[1] \in RecognizedSignalNames)

\* the expectation e is the one documented for the signal sg
ExpectationMatches(e, sg) ==
  /\ IsO(e)
  /\ Get(e.o, "expect") = sg.o.name
  /\ sg.o.name = Str1("navigation") =>
        LET url == Get(sg.o, "url")
        IN IF IsHttpUrl(url) THEN e.o = [expect |-> sg.o.name, url_exact |-> url]
           ELSE IF Truthy(url) THEN e.o = [expect |-> sg.o.name, url_contains |-> url]
           ELSE e.o = [expect |-> sg.o.name]
  /\ sg.o.name = Str1("popup") => Get(e.o, "pageAlias") = Get(sg.o, "popupAlias")
  /\ sg.o.name \in {Str1("download"), Str1("dialog")} => e.o = [expect |-> sg.o.name]

LastRecognizedSignals ==
  IF IsA(Get(LastAction, "signals")) THEN RecognizedSignals(LastAction.signals.a) ELSE <<>>

\* the step kinds whose case reads the signals of the action
LastCarriesExpectations == LastName \in {"click", "fill", "press", "check", "uncheck"}

(* C18: the expectations extracted from an action are one entry per
   recognized signal (navigation, popup, download, dialog), in signal order,
   unknown signal kinds skipped; with no signal, or none recognized, there is
   no expectations value and the step has no expectations field. *)
C18_ExpectationExtraction ==
  LastIsAction
    => /\ IF LastRecognizedSignals = <<>> THEN IsU(expectFromSignals(LastAction))
          ELSE /\ IsA(expectFromSignals(LastAction))
               /\ Len(expectFromSignals(LastAction).a) = Len(LastRecognizedSignals)
               /\ \A i \in 1..Len(LastRecognizedSignals) :
                     ExpectationMatches(expectFromSignals(LastAction).a[i], LastRecognizedSignals[i])
       /\ (~last.raised /\ LastCarriesExpectations) =>
             IF LastRecognizedSignals = <<>> THEN "expectations" \notin DOMAIN LastStep
             ELSE Get(LastStep, "expectations") = expectFromSignals(LastAction)

\* a click with a navigation, an unknown and a popup signal was emitted
C18_Witness ==
  /\ LastIsAction /\ LastName = "click" /\ ~last.raised
  /\ Get(LastAction, "signals") = A(<<SigNavigation(UrlExamplePath), SigOther, SigPopup>>)
  /\ LastStep.expectations =
       A(<< O([expect |-> Str1("navigation"), url_exact |-> UrlExamplePath]),
            O([expect |-> Str1("popup"), pageAlias |-> Str1("page1")]) >>)

\* a value holds no null or absent field, no zero modifiers and no empty
\* framePath, in its objects and in the objects its lists hold
RECURSIVE IsMinimal(_)
IsMinimal(v) ==
  IF IsO(v) THEN
    \A k \in DOMAIN v.o :
      /\ ~IsU(v.o[k])
      /\ ~(k = "modifiers" /\ v.o[k] = N(0))
      /\ ~(k = "framePath" /\ IsA(v.o[k]) /\ Len(v.o[k].a) = 0)
      /\ IsMinimal(v.o[k])
  ELSE IF IsA(v) THEN \A i \in 1..Len(v.a) : IsMinimal(v.a[i])
  ELSE TRUE

(* C19: the step that is serialized holds, at every depth, no field that is
   null or absent, no modifiers field equal to zero and no empty framePath,
   the objects held in list values included. *)
C19_StrippedAtEveryDepth ==
  (LastIsAction /\ ~last.raised /\ StepCount(last.ret) = 1) => IsMinimal(O(LastStep))

(* C20: default stripping is idempotent: stripping the step that was
   stripped once changes nothing. *)
C20_StripIdempotent ==
  (LastIsAction /\ ~last.raised /\ StepCount(last.ret) = 1)
    => stripDefaults(LastStep) = LastStep

\* a click on internal:label= : the element held only an absent label, the
\* first pass emptied and dropped it
C20_Witness ==
  /\ LastIsAction /\ LastName = "click" /\ ~last.raised
  /\ Get(LastAction, "selector") = SelLabelEmpty
  /\ LastMapped.element = [label |-> Undef]
  /\ "element" \notin DOMAIN LastStep.selector.o

-----------------------------------------------------------------------------
(* C21: generateFooter returns an empty text in every state of the generator
   (before generateHeader, configured, streaming) and changes none of the
   header-emitted flag, baseURL, name, version and debug flag. *)
C21_FooterNoEffect ==
  [][last'.op = "generateFooter"
       => /\ last'.ret = <<>>
          /\ ~last'.raised
          /\ headerEmitted' = headerEmitted
          /\ meta' = meta
          /\ seedUrl' = seedUrl
          /\ debug' = debug]_vars

\* generateFooter was called while streaming: header and steps are written
C21_Witness ==
  /\ last.op = "generateFooter"
  /\ headerEmitted
  /\ doc = <<"header", "step", "step">>
  /\ Truthy(meta.baseURL)

LastIsHeader == last.op = "generateHeader"

LastBaseUrlOption == last.input.o.baseURL

(* C22: after generateHeader, whatever the generator did before, the
   header-emitted flag is false, baseURL is the supplied baseURL option (unset
   when none is supplied), name is the host of that option or the default
   name; the call returns no header block and no step, and the next retained
   navigation writes a fresh header. *)
C22_HeaderResets ==
  LastIsHeader
    => /\ ~headerEmitted
       /\ meta.baseURL = (IF Truthy(LastBaseUrlOption) THEN LastBaseUrlOption ELSE Undef)
       /\ meta.name = (IF Truthy(LastBaseUrlOption) /\ IsHttpUrl(LastBaseUrlOption)
                       THEN S(<<LastBaseUrlOption.s[2]>>)
                       ELSE S(<<"Recorded Scenario">>))
       /\ \A i \in 1..Len(last.ret) : last.ret[i].kind = "comment"
       /\ generateAction([headerEmitted |-> headerEmitted, meta |-> meta, debug |-> debug],
                         InContext(MainFrame, [name |-> Str1("navigate"), url |-> UrlOther])
                        ).ret[1].kind = "header"

(* C23: a retained navigate or openPage whose URL does not parse as a URL does
   not make generateAction raise: the step carries the original URL string,
   and baseURL becomes that string when none was set. *)
C23_MalformedUrlKept ==
  [][(/\ last'.op = "generateAction"
      /\ last'.input.o.action.o.name \in {Str1("navigate"), Str1("openPage")}
      /\ ~IsTrivialNavigation(last'.input.o.action.o)
      /\ ~UrlParses(last'.input.o.action.o.url.s))
       => /\ ~last'.raised
          /\ StepCount(last'.ret) = 1
          /\ Get(last'.ret[Len(last'.ret)].body.o, "url") = last'.input.o.action.o.url
          /\ meta'.baseURL = (IF Truthy(meta.baseURL) THEN meta.baseURL
                               ELSE last'.input.o.action.o.url)]_vars

\* the first retained navigation went to a string that is no URL
C23_Witness ==
  /\ LastIsNavigation
  /\ Get(LastAction, "url") = UrlMalformed
  /\ ~last.raised
  /\ doc = <<"header", "step">>
  /\ meta.baseURL = UrlMalformed
  /\ LastStep.url = UrlMalformed

(* C24: generateHeader never raises, whatever baseURL option is supplied. *)
C24_HeaderNeverRaises == LastIsHeader => ~last.raised

-----------------------------------------------------------------------------
\* the last selector is one text, label or placeholder part
LastIsTextPart ==
  /\ LastHasParsedSelector
  /\ Len(LastParsed.parts) = 1
  /\ LastParsed.parts[1].name \in {"internal:text", "internal:label", "internal:placeholder"}

LastBody == LastParsed.parts[1].body

\* the body is a quoted string followed by one marker, s or i
IsSuffixForm(t) ==
  Len(t) >= 3 /\ t[1] = Q /\ t[Len(t) - 1] = Q /\ t[Len(t)] \in {"s", "i"}

\* what is between the quotes of a body in suffix form, decoded
SuffixDecoded(t) == JsonUnescape(SubSeq(t, 2, Len(t) - 2))

(* C25: a JSON-quoted string followed by the marker i parses to a regex
   matcher with the flag i whose pattern is the decoded text, special
   characters escaped, anchored to match the whole text only; followed by s
   it parses to an exact case-sensitive matcher; when the JSON decoding fails
   the input falls through to the verbatim plain text, without raising. *)
C25_SuffixForms ==
  (LastIsTextPart /\ IsSuffixForm(LastBody.s))
    => IF ~SuffixDecoded(LastBody.s).ok THEN parseTextSpec(LastBody) = LastBody
       ELSE IF LastBody.s[Len(LastBody.s)] = "s"
         THEN parseTextSpec(LastBody)
                = O([value |-> S(SuffixDecoded(LastBody.s).v), exact |-> B(TRUE)])
       ELSE parseTextSpec(LastBody)
              = O([pattern |-> S(<<"^">> \o escapeRegex(SuffixDecoded(LastBody.s).v) \o <<"$">>),
                   flags |-> S(<<"i">>)])

\* the engines whose element is built from the base part alone
BasePartEngines ==
  {"internal:testid", "internal:role", "internal:text", "internal:label",
   "internal:placeholder", "css", "css:light", "xpath"}

\* the chain of a raw selector without the parts before its base part
WithoutPrefix(raw) ==
  RawSel(SubSeq(parseSelector(raw).parts, BaseIndex(parseSelector(raw)) + 1,
                Len(parseSelector(raw).parts)),
         IF HasCapture(parseSelector(raw)) THEN N(0) ELSE Undef)

\* the last selector has a base part of one of these engines and maps
LastHasMappedBase ==
  /\ LastHasParsedSelector
  /\ BaseIndex(LastParsed) >= 0 /\ BaseIndex(LastParsed) < Len(LastParsed.parts)
  /\ LastParsed.parts[BaseIndex(LastParsed) + 1].name \in BasePartEngines
  /\ ~LastMapped.raised

LastMappedWithoutPrefix == elementFromParsedSelector(WithoutPrefix(LastAction.selector), debug)

(* C27: the parts before the base part do not reach the output: a chain whose
   base part is a testid, role, text, label, placeholder, css, css:light or
   xpath part maps to the element, filters and nth of the same chain without
   the parts before the base part. *)
C27_PrefixDropped ==
  LastHasMappedBase
    => /\ ~LastMappedWithoutPrefix.raised
       /\ LastMappedWithoutPrefix.element = LastMapped.element
       /\ LastMappedWithoutPrefix.filters = LastMapped.filters
       /\ LastMappedWithoutPrefix.nth = LastMapped.nth

\* a click on css=.form >> css=.btn >> internal:has-text="Go" >> nth=2 was emitted
C27_Witness ==
  /\ LastHasMappedBase
  /\ LastAction.selector = SelPrefixChain
  /\ BaseIndex(LastParsed) = 1
  /\ ~last.raised
  /\ LastStep.selector.o.element = O([css |-> S(<<".btn">>)])
  /\ LastStep.selector.o.nth = N(2)

-----------------------------------------------------------------------------
(* C26: the frame tree dump never blocks or fails its caller:
   scheduleDumpFrameTree returns before any dump I/O starts and does nothing
   when the output directory variable is unset; every failure of the later
   dump (mkdir, a frame's content, a file write) is caught and logged, never
   left unhandled; a frame whose dump failed still has its children dumped. *)
C26_DumpNeverBlocksOrFails ==
  /\ dump.io => dump.caller = "returned"
  /\ (dump.caller # "idle" /\ ~dump.outDir) => (dump.task = "none" /\ ~dump.io)
  /\ dump.rejection \in {"none", "caught"}
  /\ dump.task = "settled" =>
        Len(dump.log) = Cardinality(dump.failed) + (IF dump.rejection = "caught" THEN 1 ELSE 0)
  /\ (dump.task = "settled" /\ dump.rejection = "none") =>
        \A f \in Frames : /\ dump.frames[f] = "done"
                          /\ f \in dump.files <=> f \notin dump.failed

\* the dump is over: the main frame and its first child failed, the frame
\* below them was written
C26_Witness ==
  /\ dump.task = "settled" /\ dump.caller = "returned"
  /\ dump.failed = {"main", "main-child0"}
  /\ dump.files = {"main-child1", "main-child0-child0"}
  /\ Len(dump.log) = 2

=============================================================================
